---- MODULE Spec2Model ----
(***************************************************************************)
(* The MQTT bridge of the esp8266-mqtt repository: the Express server      *)
(* (src/unnamed/part_000), the worker (src/cf-worker/src/index.ts) and the *)
(* device firmware (src/unnamed/part_001).                                 *)
(*                                                                         *)
(* The two bridge variants share their state variables; `variant` says     *)
(* which program a behaviour is a run of.                                  *)
(***************************************************************************)
EXTENDS Integers, Sequences, FiniteSets, TLC

\* ---------------------------------------------------------------- bounds
MaxClock   == 1    \* the bridge clock takes the values 0..MaxClock
MaxClients == 2    \* broker client objects the worker may create
MaxReqs    == 2    \* command requests in the request log
MaxCmdLen  == 2    \* symbols in a raw command string
MaxReqsAll == 1    \* command requests in a behaviour of the whole bridge (Spec)
MaxGood    == 2    \* parsed telemetry messages counted (hist.n stops there)
MaxTicks   == 3    \* publish intervals the device clock counts before it wraps
MaxOut     == 2    \* device publishes counted (fwOut.n stops there)
MaxRx      == 1    \* commands of other publishers waiting at the device

VARIABLES
  variant,      \* "express" or "worker": which bridge program runs
  clients,      \* the broker client objects ever created (mqtt.connect)
  cur,          \* the client the global mqttClient refers to (0: null)
  latestData,   \* the cached snapshot
  now,          \* the bridge clock (new Date())
  reqs,         \* the command requests, with the response each got
  pubs,         \* the publish calls made on the command topic
  hist,         \* the last telemetry message that parsed, when, and how many did
  conn,         \* connect attempts: was the last failure followed by a delay
  proc,         \* the bridge process: "running", or "exited" (process.exit())
  lastRead,     \* the response of the last GET request, and the flag it met
  brRx,         \* the device's telemetry on its way to the bridge ("": none)
  \* the device firmware
  fwPc,         \* where the sketch is: setup(), reconnect(), loop()
  fwRet,        \* who called reconnect(): "setup" or "loop"
  fwConnected,  \* client.connected()
  fwSubs,       \* the topics subscribed on the current connection
  fwTls,        \* the TLS client's verification mode
  ledState,     \* bool ledState
  ledPin,       \* the level written to ledPin
  fwMillis,     \* millis()
  lastPublish,  \* unsigned long lastPublish
  fwOut,        \* the last message the device published, and how many it did
  fwConn,       \* connect attempts of the device, as conn
  fwIn,         \* the payload client.loop() handed to callback() in this pass
  fwTicked,     \* has millis() advanced during this pass of loop()
  fwRx          \* the messages the broker sent the device, not yet read

bridgeVars == <<variant, clients, cur, latestData, now, reqs, pubs, hist, conn, proc,
                lastRead, brRx>>

deviceVars == <<fwPc, fwRet, fwConnected, fwSubs, fwTls, ledState, ledPin, fwMillis,
                lastPublish, fwOut, fwConn, fwIn, fwTicked, fwRx>>

vars == <<bridgeVars, deviceVars>>

\* ---------------------------------------------------------------- topics
TopicData    == "device/esp8266_001/data"
TopicCommand == "device/esp8266_001/command"
TopicStatus  == "device/esp8266_001/status"

\* ------------------------------------------------------------ JSON values
\* A scalar member value: its JSON type and a number standing for the value.
JBool(b) == [t |-> "bool", n |-> IF b THEN 1 ELSE 0]
JNum(k)  == [t |-> "num", n |-> k]
JStr(k)  == [t |-> "str", n |-> k]

\* new Date().toISOString(): a string determined by the clock value.
toISOString(t) == [t |-> "str", n |-> t]

\* JSON.parse on the telemetry texts the model feeds the bridge: whether it
\* returns, the type of the value, and the value's own enumerable properties
\* (what the object spread copies).  A primitive has none, an array and a
\* string have their indices.
NoProps == [k \in {} |-> JNum(0)]

JSONParse(text) ==
  CASE text = "{\"ledState\":true,\"uptime\":120,\"freeHeap\":30000,\"rssi\":-55}" ->
         [ok |-> TRUE, t |-> "obj",
          props |-> [k \in {"ledState", "uptime", "freeHeap", "rssi"} |->
                       CASE k = "ledState" -> JBool(TRUE)
                         [] k = "uptime"   -> JNum(120)
                         [] k = "freeHeap" -> JNum(30000)
                         [] k = "rssi"     -> JNum(-55)]]
    [] text = "{\"ledState\":false,\"uptime\":120,\"freeHeap\":30000,\"rssi\":-55}" ->
         [ok |-> TRUE, t |-> "obj",
          props |-> [k \in {"ledState", "uptime", "freeHeap", "rssi"} |->
                       CASE k = "ledState" -> JBool(FALSE)
                         [] k = "uptime"   -> JNum(120)
                         [] k = "freeHeap" -> JNum(30000)
                         [] k = "rssi"     -> JNum(-55)]]
    [] text = "{\"ledState\":false}" ->
         [ok |-> TRUE, t |-> "obj", props |-> [k \in {"ledState"} |-> JBool(FALSE)]]
    [] text = "{\"ledState\":true,\"timestamp\":\"1970-01-01T00:00:09.000Z\"}" ->
         [ok |-> TRUE, t |-> "obj",
          props |-> [k \in {"ledState", "timestamp"} |->
                       IF k = "ledState" THEN JBool(TRUE) ELSE JStr(9)]]
    [] text = "{\"ledState\":\"on\"}" ->
         [ok |-> TRUE, t |-> "obj", props |-> [k \in {"ledState"} |-> JStr(1)]]
    [] text = "{}"   -> [ok |-> TRUE, t |-> "obj", props |-> NoProps]
    [] text = "42"   -> [ok |-> TRUE, t |-> "num", props |-> NoProps]
    [] text = "null" -> [ok |-> TRUE, t |-> "null", props |-> NoProps]
    [] text = "[7]"  -> [ok |-> TRUE, t |-> "arr", props |-> [k \in {"0"} |-> JNum(7)]]
    [] text = "\"a\"" -> [ok |-> TRUE, t |-> "str", props |-> [k \in {"0"} |-> JStr(1)]]
    [] OTHER -> [ok |-> FALSE, t |-> "none", props |-> NoProps]   \* SyntaxError

\* The message texts the broker may deliver.
RawMessages ==
  { "{\"ledState\":true,\"uptime\":120,\"freeHeap\":30000,\"rssi\":-55}",
    "{\"ledState\":false}",
    "{\"ledState\":true,\"timestamp\":\"1970-01-01T00:00:09.000Z\"}",
    "{\"ledState\":\"on\"}",
    "{}", "42", "null", "[7]", "\"a\"",
    "{\"ledState\":", "online" }

\* { ...a, ...b }: b's properties over a's.
Spread(a, b) == [k \in (DOMAIN a) \cup (DOMAIN b) |-> IF k \in DOMAIN b THEN b[k] ELSE a[k]]

Timestamp(t) == [k \in {"timestamp"} |-> toISOString(t)]

\* let latestData = { ledState: false, timestamp: new Date().toISOString() }
Placeholder(t) == [k \in {"ledState", "timestamp"} |->
                     IF k = "ledState" THEN JBool(FALSE) ELSE toISOString(t)]


\* ------------------------------------------------------- the State Cache
\* Variants of the message handlers, as slips in them would make them: a
\* merge into the previous snapshot, the timestamp written before the spread,
\* and a handler that does not test the topic.
onMessageMerging(latest, topic, text, t) ==
  IF topic = TopicData /\ JSONParse(text).ok
    THEN Spread(latest, Spread(JSONParse(text).props, Timestamp(t)))
    ELSE latest

onMessageTimestampFirst(latest, topic, text, t) ==
  IF topic = TopicData /\ JSONParse(text).ok
    THEN Spread(Timestamp(t), JSONParse(text).props)
    ELSE latest

onMessageAnyTopic(latest, topic, text, t) ==
  IF JSONParse(text).ok
    THEN Spread(JSONParse(text).props, Timestamp(t))
    ELSE latest

\* Express: mqttClient.on("message") -- the try block around the topic test.
onMessageExpress(latest, topic, text, t) ==
  IF topic = TopicData
    THEN IF JSONParse(text).ok
           THEN Spread(JSONParse(text).props, Timestamp(t))
           ELSE latest                       \* catch: "Parse error", no write
    ELSE latest                              \* status topic: log only

\* Worker: mqttClient.on("message") -- the topic test around the try block.
onMessageWorker(latest, topic, text, t) ==
  IF topic = TopicData
    THEN IF JSONParse(text).ok
           THEN Spread(JSONParse(text).props, Timestamp(t))
           ELSE latest                       \* catch {}
    ELSE latest

\* --------------------------------------------------- broker client objects
\* What mqtt.connect returns: a client that is connecting, with no
\* subscription; `queued` holds the subscribe calls made while it is not
\* connected, which the client sends once it is.
NewClient == [st |-> "connecting", subs |-> {}, queued |-> {}]

connected(cs, c) == c # 0 /\ cs[c].st = "connected"

\* client.subscribe(topic) on client c.
subscribe(cs, c, topic) ==
  IF cs[c].st = "connected"
    THEN [cs EXCEPT ![c].subs = @ \cup {topic}]
    ELSE [cs EXCEPT ![c].queued = @ \cup {topic}]

\* Express: the "connect" handler subscribes on the client it belongs to (the
\* const mqttClient).
onConnectExpress(cs, c, global) ==
  subscribe(subscribe(cs, c, TopicData), c, TopicStatus)

\* Worker: the "connect" handler of client c subscribes on whatever the global
\* mqttClient refers to when the event fires.
onConnectWorker(cs, c, global) ==
  subscribe(subscribe(cs, global, TopicData), global, TopicStatus)

\* client.end(): the client stops reconnecting and starts to disconnect; the
\* DISCONNECT packet and the closing of the stream come in later turns of the
\* event loop, after end() has returned.
end(cs, c) == [cs EXCEPT ![c].st = "disconnecting", ![c].queued = {}]

\* The answer of a GET route: always a JSON body (status 200), with the
\* connected flag of the client the global mqttClient refers to, false when it
\* is null (mqttClient?.connected || false).
NoRead == [route |-> "none", code |-> 0, mqtt |-> FALSE, was |-> FALSE]

\* The route that reads mqttClient.connected with no regard for null.
readResponseNoGuard(route, cs, c, was) ==
  [route |-> route, code |-> IF c = 0 THEN 500 ELSE 200,
   mqtt |-> IF c = 0 THEN FALSE ELSE cs[c].st = "connected", was |-> was]

readResponse(route, cs, c, was) ==
  [route |-> route, code |-> 200, mqtt |-> connected(cs, c), was |-> was]

\* Worker initMqtt: `if (mqttClient?.connected) return mqttClient`, else a new
\* client replaces the global.
needsNewClient(cs, c) == ~connected(cs, c)

clientsAfterInit(cs, c) == IF needsNewClient(cs, c) THEN Append(cs, NewClient) ELSE cs

curAfterInit(cs, c) == IF needsNewClient(cs, c) THEN Len(cs) + 1 ELSE c

\* The connect-attempt record after a new attempt starts with no delay step
\* before it (mqtt.connect connects at once).
attemptAtOnce(cn) == [delayed |-> cn.delayed, backToBack |-> cn.backToBack \/ ~cn.delayed]

\* ----------------------------------------------------- command validation
Alphabet == {" ", "LED_ON"}     \* a blank, and the word LED_ON as one symbol

Strings == UNION {[1..n -> Alphabet] : n \in 0..MaxCmdLen}

RECURSIVE TrimStart(_)
TrimStart(s) == IF s # <<>> /\ Head(s) = " " THEN TrimStart(Tail(s)) ELSE s

RECURSIVE TrimEnd(_)
TrimEnd(s) ==
  IF s # <<>> /\ s[Len(s)] = " " THEN TrimEnd(SubSeq(s, 1, Len(s) - 1)) ELSE s

\* String.prototype.trim
trim(s) == TrimEnd(TrimStart(s))

\* A request body member: its JavaScript type, and its value when it is a
\* boolean (b) or a string (s).  "undef" is a missing member.
Body(t, b, s) == [t |-> t, b |-> b, s |-> s]

LedBodies == { Body("bool", TRUE, <<>>), Body("bool", FALSE, <<>>),
               Body("str", FALSE, <<"LED_ON">>), Body("undef", FALSE, <<>>) }

RawBodies == { Body("str", FALSE, s) : s \in Strings }
               \cup { Body("num", FALSE, <<>>), Body("undef", FALSE, <<>>) }

\* typeof state !== "boolean"
ledInvalid(body) == body.t # "bool"

\* The two tokens the wrong way round, as a slip in the ternary would have them.
ledCommandSwapped(body) == IF body.b THEN <<"LED_OFF">> ELSE <<"LED_ON">>

\* state ? "LED_ON" : "LED_OFF"
ledCommand(body) == IF body.b THEN <<"LED_ON">> ELSE <<"LED_OFF">>

\* Express: typeof command !== "string" || command.trim() === ""
rawInvalidExpress(body) == body.t # "str" \/ trim(body.s) = <<>>

\* Worker: !command?.trim() -- a missing command is invalid, a value that is
\* neither missing nor a string has no trim method and the call throws.
rawThrowsWorker(body) == body.t \notin {"str", "undef"}

rawInvalidWorker(body) == body.t = "undef" \/ (body.t = "str" /\ trim(body.s) = <<>>)

\* A request-log entry and a publish-log entry.
Req(op, body, resp, pub, wasConn, started) ==
  [op |-> op, body |-> body, resp |-> resp, pub |-> pub,
   conn |-> wasConn, started |-> started]

Pub(c, payload, st, req) ==
  [client |-> c, topic |-> TopicCommand, payload |-> payload, qos |-> 1,
   st |-> st, req |-> req]

\* ---------------------------------------------------------------- Init
Init ==
  /\ variant \in {"express", "worker"}
  /\ clients = IF variant = "express" THEN <<NewClient>> ELSE <<>>
  /\ cur = IF variant = "express" THEN 1 ELSE 0
  /\ now = 0
  /\ latestData = Placeholder(0)
  /\ reqs = <<>>
  /\ pubs = <<>>
  /\ hist = [text |-> "", at |-> 0, n |-> 0]
  /\ conn = [delayed |-> TRUE, backToBack |-> FALSE]
  /\ proc = "running"
  /\ lastRead = NoRead
  /\ brRx = ""
  /\ fwPc = "setup"
  /\ fwRet = "setup"
  /\ fwConnected = FALSE
  /\ fwSubs = {}
  /\ fwTls = "unset"
  /\ ledState = FALSE
  /\ ledPin = "unset"
  /\ fwMillis = 0
  /\ lastPublish = 0
  /\ fwOut = [topic |-> "", payload |-> <<>>, led |-> FALSE, n |-> 0]
  /\ fwConn = [delayed |-> TRUE, backToBack |-> FALSE]
  /\ fwIn = <<>>
  /\ fwTicked = FALSE
  /\ fwRx = <<>>

\* The clock advances.
Tick ==
  /\ proc = "running"
  /\ now < MaxClock
  /\ now' = now + 1
  /\ UNCHANGED <<variant, clients, cur, latestData, reqs, pubs, hist, conn, proc,
                 lastRead, brRx>>
  /\ UNCHANGED deviceVars

\* ------------------------------------------------ the session's lifecycle
\* The broker accepts the connection of client c: the client flushes its
\* queued subscribe calls and emits "connect".
ConnectOk(c) ==
  /\ proc = "running"
  /\ clients[c].st = "connecting"
  /\ LET cs == [clients EXCEPT ![c].st = "connected", ![c].subs = clients[c].queued,
                               ![c].queued = {}]
     IN clients' = IF variant = "express" THEN onConnectExpress(cs, c, cur)
                                          ELSE onConnectWorker(cs, c, cur)
  /\ conn' = [conn EXCEPT !.delayed = TRUE]
  /\ UNCHANGED <<variant, cur, latestData, now, reqs, pubs, hist, proc, lastRead, brRx>>
  /\ UNCHANGED deviceVars

\* The connection attempt of client c fails ("error", "close"): the client
\* arms its reconnect timer.
ConnectFail(c) ==
  /\ proc = "running"
  /\ clients[c].st = "connecting"
  /\ clients' = [clients EXCEPT ![c].st = "backoff"]
  /\ conn' = [conn EXCEPT !.delayed = FALSE]
  /\ UNCHANGED <<variant, cur, latestData, now, reqs, pubs, hist, proc, lastRead, brRx>>
  /\ UNCHANGED deviceVars

\* The reconnect period of client c has elapsed: "reconnect", a new attempt.
ReconnectTimer(c) ==
  /\ proc = "running"
  /\ clients[c].st = "backoff"
  /\ clients' = [clients EXCEPT ![c].st = "connecting"]
  /\ conn' = [conn EXCEPT !.delayed = TRUE]
  /\ UNCHANGED <<variant, cur, latestData, now, reqs, pubs, hist, proc, lastRead, brRx>>
  /\ UNCHANGED deviceVars

\* The session of client c drops: connected becomes false, the subscriptions
\* of the clean session are gone, the reconnect timer is armed.
Drop(c) ==
  /\ proc = "running"
  /\ clients[c].st = "connected"
  /\ clients' = [clients EXCEPT ![c].st = "backoff", ![c].subs = {}]
  /\ brRx' = IF \E d \in DOMAIN clients' : TopicData \in clients'[d].subs THEN brRx ELSE ""
  /\ UNCHANGED <<variant, cur, latestData, now, reqs, pubs, hist, conn, proc, lastRead>>
  /\ UNCHANGED deviceVars

\* The broker delivers a message to client c on a topic it subscribed to.
Message(c, topic, text) ==
  /\ proc = "running"
  /\ clients[c].st = "connected"
  /\ topic \in clients[c].subs
  /\ latestData' = IF variant = "express" THEN onMessageExpress(latestData, topic, text, now)
                                          ELSE onMessageWorker(latestData, topic, text, now)
  /\ hist' = IF topic = TopicData /\ JSONParse(text).ok
               THEN [text |-> text, at |-> now,
                     n |-> IF hist.n < MaxGood THEN hist.n + 1 ELSE hist.n]
               ELSE hist
  /\ UNCHANGED <<variant, clients, cur, now, reqs, pubs, conn, proc, lastRead, brRx>>
  /\ UNCHANGED deviceVars


\* ------------------------------------------------ Express command routes
\* app.post("/api/command/led"): validate, then publish at QoS 1; the response
\* is written by the publish callback.
ExpressPostLed(body) ==
  /\ proc = "running"
  /\ variant = "express"
  /\ Len(reqs) < MaxReqs
  /\ IF ledInvalid(body)
       THEN /\ reqs' = Append(reqs, Req("led", body, "invalid", 0, connected(clients, cur), FALSE))
            /\ pubs' = pubs
       ELSE /\ pubs' = Append(pubs, Pub(cur, ledCommand(body), "pending", Len(reqs) + 1))
            /\ reqs' = Append(reqs, Req("led", body, "none", Len(pubs) + 1,
                                        connected(clients, cur), FALSE))
  /\ UNCHANGED <<variant, clients, cur, latestData, now, hist, conn, proc, lastRead,
                 brRx>>
  /\ UNCHANGED deviceVars

\* app.post("/api/command")
ExpressPostCommand(body) ==
  /\ proc = "running"
  /\ variant = "express"
  /\ Len(reqs) < MaxReqs
  /\ IF rawInvalidExpress(body)
       THEN /\ reqs' = Append(reqs, Req("raw", body, "invalid", 0, connected(clients, cur), FALSE))
            /\ pubs' = pubs
       ELSE /\ pubs' = Append(pubs, Pub(cur, trim(body.s), "pending", Len(reqs) + 1))
            /\ reqs' = Append(reqs, Req("raw", body, "none", Len(pubs) + 1,
                                        connected(clients, cur), FALSE))
  /\ UNCHANGED <<variant, clients, cur, latestData, now, hist, conn, proc, lastRead,
                 brRx>>
  /\ UNCHANGED deviceVars

\* app.get("/"), app.get("/api/data"), app.get("/api/status"): the response is
\* built from latestData and mqttClient.connected; nothing is written.
ExpressGet ==
  /\ proc = "running"
  /\ variant = "express"
  /\ lastRead' = readResponse("get", clients, cur, clients[cur].st = "connected")
  /\ UNCHANGED <<variant, clients, cur, latestData, now, reqs, pubs, hist, conn, proc,
                 brRx>>
  /\ UNCHANGED deviceVars

\* ------------------------------------------------- worker command routes
\* app.post("/api/command/led"): initMqtt, then validate, then publish without
\* a callback and answer at once.
WorkerPostLed(body) ==
  /\ proc = "running"
  /\ variant = "worker"
  /\ Len(reqs) < MaxReqs
  /\ needsNewClient(clients, cur) => Len(clients) < MaxClients
  /\ clients' = clientsAfterInit(clients, cur)
  /\ cur' = curAfterInit(clients, cur)
  /\ conn' = IF needsNewClient(clients, cur) THEN attemptAtOnce(conn) ELSE conn
  /\ IF ledInvalid(body)
       THEN /\ reqs' = Append(reqs, Req("led", body, "invalid", 0, connected(clients, cur),
                                        needsNewClient(clients, cur)))
            /\ pubs' = pubs
       ELSE /\ pubs' = Append(pubs, Pub(cur', ledCommand(body), "pending", Len(reqs) + 1))
            /\ reqs' = Append(reqs, Req("led", body, "ok", Len(pubs) + 1,
                                        connected(clients, cur), needsNewClient(clients, cur)))
  /\ UNCHANGED <<variant, latestData, now, hist, proc, lastRead, brRx>>
  /\ UNCHANGED deviceVars

\* app.post("/api/command")
WorkerPostCommand(body) ==
  /\ proc = "running"
  /\ variant = "worker"
  /\ Len(reqs) < MaxReqs
  /\ needsNewClient(clients, cur) => Len(clients) < MaxClients
  /\ clients' = clientsAfterInit(clients, cur)
  /\ cur' = curAfterInit(clients, cur)
  /\ conn' = IF needsNewClient(clients, cur) THEN attemptAtOnce(conn) ELSE conn
  /\ IF rawThrowsWorker(body) \/ rawInvalidWorker(body)
       THEN /\ reqs' = Append(reqs, Req("raw", body,
                                        IF rawThrowsWorker(body) THEN "exception" ELSE "invalid",
                                        0, connected(clients, cur), needsNewClient(clients, cur)))
            /\ pubs' = pubs
       ELSE /\ pubs' = Append(pubs, Pub(cur', trim(body.s), "pending", Len(reqs) + 1))
            /\ reqs' = Append(reqs, Req("raw", body, "ok", Len(pubs) + 1,
                                        connected(clients, cur), needsNewClient(clients, cur)))
  /\ UNCHANGED <<variant, latestData, now, hist, proc, lastRead, brRx>>
  /\ UNCHANGED deviceVars

\* app.get("/api/data"): initMqtt, then answer from latestData.
WorkerGetData ==
  /\ proc = "running"
  /\ variant = "worker"
  /\ needsNewClient(clients, cur) => Len(clients) < MaxClients
  /\ clients' = clientsAfterInit(clients, cur)
  /\ cur' = curAfterInit(clients, cur)
  /\ conn' = IF needsNewClient(clients, cur) THEN attemptAtOnce(conn) ELSE conn
  /\ lastRead' = readResponse("data", clients', cur',
                               cur # 0 /\ clients[cur].st = "connected")
  /\ UNCHANGED <<variant, latestData, now, reqs, pubs, hist, proc, brRx>>
  /\ UNCHANGED deviceVars

\* app.get("/"), app.get("/api/status"): no initMqtt, nothing is written.
WorkerGetStatus ==
  /\ proc = "running"
  /\ variant = "worker"
  /\ lastRead' = readResponse("status", clients, cur,
                               cur # 0 /\ clients[cur].st = "connected")
  /\ UNCHANGED <<variant, clients, cur, latestData, now, reqs, pubs, hist, conn, proc,
                 brRx>>
  /\ UNCHANGED deviceVars

\* ------------------------------------------------- publish acknowledgment
\* The broker acknowledges publish p (PUBACK) on its client's live session,
\* and sends the message on to the device if the device is subscribed.  The
\* publishes of one client reach the broker in the order they were made.
\* Express: the publish callback runs without error and answers success.
PubAck(p) ==
  /\ proc = "running"
  /\ pubs[p].st = "pending"
  /\ clients[pubs[p].client].st = "connected"
  /\ \A q \in 1..(p - 1) : pubs[q].client = pubs[p].client => pubs[q].st # "pending"
  /\ pubs' = [pubs EXCEPT ![p].st = "acked"]
  /\ fwRx' = IF fwConnected /\ pubs[p].topic \in fwSubs
              THEN Append(fwRx, [topic |-> pubs[p].topic, msg |-> pubs[p].payload])
              ELSE fwRx
  /\ reqs' = IF variant = "express" THEN [reqs EXCEPT ![pubs[p].req].resp = "ok"] ELSE reqs
  /\ UNCHANGED <<variant, clients, cur, latestData, now, hist, conn, proc, lastRead,
                 brRx>>
  /\ UNCHANGED <<fwPc, fwRet, fwConnected, fwSubs, fwTls, ledState, ledPin, fwMillis,
                 lastPublish, fwOut, fwConn, fwIn, fwTicked>>

\* The client gives up publish p while it has no session.  Express: the
\* publish callback runs with an error and answers 500.
PubError(p) ==
  /\ proc = "running"
  /\ pubs[p].st = "pending"
  /\ clients[pubs[p].client].st # "connected"
  /\ pubs' = [pubs EXCEPT ![p].st = "failed"]
  /\ reqs' = IF variant = "express" THEN [reqs EXCEPT ![pubs[p].req].resp = "error"] ELSE reqs
  /\ UNCHANGED <<variant, clients, cur, latestData, now, hist, conn, proc, lastRead,
                 brRx>>
  /\ UNCHANGED deviceVars

\* ---------------------------------------------------------------- shutdown
\* process.on("SIGINT"): mqttClient.end(); process.exit(); the process is gone
\* when the handler returns.  The worker has no such handler.
Shutdown ==
  /\ proc = "running"
  /\ variant = "express"
  /\ clients' = end(clients, cur)
  /\ proc' = "exited"
  /\ UNCHANGED <<variant, cur, latestData, now, reqs, pubs, hist, conn, lastRead, brRx>>
  /\ UNCHANGED deviceVars

\* ------------------------------------------------------ device firmware
publishInterval == 5000

\* unsigned long: millis() and lastPublish count modulo the width of the type,
\* here MaxTicks + 1 publish intervals.
MillisModulus == (MaxTicks + 1) * publishInterval

\* The timer test that is skipped in a pass whose callback() has published.
timerDuePostponed(t, last) ==
  fwIn \notin {<<"LED_ON">>, <<"LED_OFF">>} /\ ((t - last) % MillisModulus) > publishInterval

\* now - lastPublish > publishInterval, in unsigned arithmetic.
timerDue(t, last) == ((t - last) % MillisModulus) > publishInterval

LedOn  == <<"LED_ON">>
LedOff == <<"LED_OFF">>

\* What the broker may deliver on the command topic: the two LED tokens and
\* the raw commands the bridge can publish.
DeviceCommands == {LedOn, LedOff} \cup ({trim(s) : s \in Strings} \ {<<>>})

\* client.publish(topic, payload): sent only while connected.
fwPublish(out, isConn, topic, payload, led) ==
  IF isConn
    THEN [topic |-> topic, payload |-> payload, led |-> led,
          n |-> IF out.n < MaxOut THEN out.n + 1 ELSE out.n]
    ELSE out

\* publishData(): the telemetry document carries the current ledState.
publishData(out, isConn, led) == fwPublish(out, isConn, TopicData, <<"data">>, led)

\* serializeJson(doc, jsonBuffer): the text of the telemetry document; uptime,
\* freeHeap and rssi stand at fixed values.
serializeJson(led) ==
  IF led THEN "{\"ledState\":true,\"uptime\":120,\"freeHeap\":30000,\"rssi\":-55}"
         ELSE "{\"ledState\":false,\"uptime\":120,\"freeHeap\":30000,\"rssi\":-55}"

\* The broker passes a data-topic publish of the device on to the bridge
\* clients subscribed to it: rx is what is on its way to them.
routeData(rx, cs, sent, text) ==
  IF sent /\ \E c \in DOMAIN cs : TopicData \in cs[c].subs THEN text ELSE rx

\* publishStatus(status)
publishStatus(out, isConn, status) == fwPublish(out, isConn, TopicStatus, <<status>>, FALSE)

\* The callback that takes LED_ON for off and LED_OFF for on.
callbackLedInverted(topic, msg, led) ==
  IF topic = TopicCommand
    THEN IF msg = <<"LED_ON">> THEN FALSE ELSE IF msg = <<"LED_OFF">> THEN TRUE ELSE led
    ELSE led

\* callback(): the actuator state, the pin level, and whether it publishes.
callbackLed(topic, msg, led) ==
  IF topic = TopicCommand
    THEN IF msg = LedOn THEN TRUE ELSE IF msg = LedOff THEN FALSE ELSE led
    ELSE led

\* The levels of an active-high LED.
callbackPinActiveHigh(topic, msg, pin) ==
  IF topic = TopicCommand
    THEN IF msg = LedOn THEN "HIGH" ELSE IF msg = LedOff THEN "LOW" ELSE pin
    ELSE pin

callbackPin(topic, msg, pin) ==
  IF topic = TopicCommand
    THEN IF msg = LedOn THEN "LOW" ELSE IF msg = LedOff THEN "HIGH" ELSE pin
    ELSE pin

\* The callback that reports after whatever it was handed.
callbackPublishesAnyMessage(topic, msg) == TRUE

\* The callback that sets the actuator and leaves the report to the timer.
callbackPublishesNothing(topic, msg) == FALSE

callbackPublishes(topic, msg) == topic = TopicCommand /\ msg \in {LedOn, LedOff}

\* setup() up to its call of reconnect(): the LED pin is driven HIGH, the
\* trust anchor is set and then setInsecure() turns verification off.
FwSetup ==
  /\ fwPc = "setup"
  /\ ledPin' = "HIGH"
  /\ fwTls' = "insecure"
  /\ fwPc' = "reconnect"
  /\ fwRet' = "setup"
  /\ UNCHANGED bridgeVars
  /\ UNCHANGED <<fwConnected, fwSubs, ledState, fwMillis, lastPublish, fwOut, fwConn,
                 fwIn, fwTicked, fwRx>>

\* reconnect(): while (!client.connected())
FwReconnectTest ==
  /\ fwPc = "reconnect"
  /\ IF fwConnected
       THEN /\ fwPc' = IF fwRet = "setup" THEN "online" ELSE "poll"
            /\ fwConn' = fwConn
       ELSE /\ fwPc' = "connect"
            /\ fwConn' = attemptAtOnce(fwConn)
  /\ UNCHANGED bridgeVars
  /\ UNCHANGED <<fwRet, fwConnected, fwSubs, fwTls, ledState, ledPin, fwMillis,
                 lastPublish, fwOut, fwIn, fwTicked, fwRx>>

\* client.connect(...) returns true.
FwConnectOk ==
  /\ fwPc = "connect"
  /\ fwConnected' = TRUE
  /\ fwSubs' = {}
  /\ fwPc' = "subscribe"
  /\ fwConn' = [fwConn EXCEPT !.delayed = TRUE]
  /\ UNCHANGED bridgeVars
  /\ UNCHANGED <<fwRet, fwTls, ledState, ledPin, fwMillis, lastPublish, fwOut, fwIn,
                 fwTicked, fwRx>>

\* client.connect(...) returns false.
FwConnectFail ==
  /\ fwPc = "connect"
  /\ fwPc' = "delay"
  /\ fwConn' = [fwConn EXCEPT !.delayed = FALSE]
  /\ UNCHANGED bridgeVars
  /\ UNCHANGED <<fwRet, fwConnected, fwSubs, fwTls, ledState, ledPin, fwMillis,
                 lastPublish, fwOut, fwIn, fwTicked, fwRx>>

\* delay(5000), then the loop test again: millis() is one interval further.
FwDelay ==
  /\ fwPc = "delay"
  /\ fwPc' = "reconnect"
  /\ fwMillis' = (fwMillis + publishInterval) % MillisModulus
  /\ fwConn' = [fwConn EXCEPT !.delayed = TRUE]
  /\ UNCHANGED bridgeVars
  /\ UNCHANGED <<fwRet, fwConnected, fwSubs, fwTls, ledState, ledPin, lastPublish,
                 fwOut, fwIn, fwTicked, fwRx>>

\* client.subscribe(topicCommand)
FwSubscribe ==
  /\ fwPc = "subscribe"
  /\ fwSubs' = IF fwConnected THEN fwSubs \cup {TopicCommand} ELSE fwSubs
  /\ fwPc' = "status"
  /\ UNCHANGED bridgeVars
  /\ UNCHANGED <<fwRet, fwConnected, fwTls, ledState, ledPin, fwMillis, lastPublish,
                 fwOut, fwConn, fwIn, fwTicked, fwRx>>

\* publishStatus("connected"), then the loop test again.
FwStatusConnected ==
  /\ fwPc = "status"
  /\ fwOut' = publishStatus(fwOut, fwConnected, "connected")
  /\ fwPc' = "reconnect"
  /\ UNCHANGED bridgeVars
  /\ UNCHANGED <<fwRet, fwConnected, fwSubs, fwTls, ledState, ledPin, fwMillis,
                 lastPublish, fwConn, fwIn, fwTicked, fwRx>>

\* setup(): publishStatus("online"); loop() runs from here on.
FwStatusOnline ==
  /\ fwPc = "online"
  /\ fwOut' = publishStatus(fwOut, fwConnected, "online")
  /\ fwPc' = "loop"
  /\ UNCHANGED bridgeVars
  /\ UNCHANGED <<fwRet, fwConnected, fwSubs, fwTls, ledState, ledPin, fwMillis,
                 lastPublish, fwConn, fwIn, fwTicked, fwRx>>

\* loop(): if (!client.connected()) reconnect();
FwLoop ==
  /\ fwPc = "loop"
  /\ fwPc' = IF fwConnected THEN "poll" ELSE "reconnect"
  /\ fwRet' = "loop"
  /\ fwIn' = <<>>
  /\ fwTicked' = FALSE
  /\ UNCHANGED bridgeVars
  /\ UNCHANGED <<fwConnected, fwSubs, fwTls, ledState, ledPin, fwMillis, lastPublish,
                 fwOut, fwConn, fwRx>>

\* client.loop() with nothing to read.
FwPollIdle ==
  /\ fwPc = "poll"
  /\ fwRx = <<>>
  /\ fwPc' = "timer"
  /\ UNCHANGED bridgeVars
  /\ UNCHANGED <<fwRet, fwConnected, fwSubs, fwTls, ledState, ledPin, fwMillis,
                 lastPublish, fwOut, fwConn, fwIn, fwTicked, fwRx>>

\* client.loop() reads the next message the broker sent and runs callback().
FwPollMessage ==
  /\ fwPc = "poll"
  /\ fwConnected
  /\ fwRx # <<>>
  /\ LET topic == Head(fwRx).topic
         msg == Head(fwRx).msg
     IN /\ ledState' = callbackLed(topic, msg, ledState)
        /\ ledPin' = callbackPin(topic, msg, ledPin)
        /\ fwOut' = IF callbackPublishes(topic, msg)
                      THEN publishData(fwOut, fwConnected, ledState')
                      ELSE fwOut
        /\ brRx' = routeData(brRx, clients, fwConnected /\ callbackPublishes(topic, msg),
                             serializeJson(ledState'))
        /\ fwIn' = msg
  /\ fwRx' = Tail(fwRx)
  /\ fwPc' = "timer"
  /\ UNCHANGED <<variant, clients, cur, latestData, now, reqs, pubs, hist, conn, proc,
                 lastRead>>
  /\ UNCHANGED <<fwRet, fwConnected, fwSubs, fwTls, fwMillis, lastPublish, fwConn,
                 fwTicked>>

\* loop(): the periodic publish.
FwTimer ==
  /\ fwPc = "timer"
  /\ IF timerDue(fwMillis, lastPublish)
       THEN /\ lastPublish' = fwMillis
            /\ fwOut' = publishData(fwOut, fwConnected, ledState)
            /\ brRx' = routeData(brRx, clients, fwConnected, serializeJson(ledState))
       ELSE UNCHANGED <<lastPublish, fwOut, brRx>>
  /\ fwPc' = "loop"
  /\ UNCHANGED <<variant, clients, cur, latestData, now, reqs, pubs, hist, conn, proc,
                 lastRead>>
  /\ UNCHANGED <<fwRet, fwConnected, fwSubs, fwTls, ledState, ledPin, fwMillis, fwConn,
                 fwIn, fwTicked, fwRx>>

\* The device's connection to the broker is lost, and what was on its way to
\* the device with it.
FwDrop ==
  /\ fwConnected
  /\ fwConnected' = FALSE
  /\ fwSubs' = {}
  /\ fwRx' = <<>>
  /\ UNCHANGED bridgeVars
  /\ UNCHANGED <<fwPc, fwRet, fwTls, ledState, ledPin, fwMillis, lastPublish, fwOut,
                 fwConn, fwIn, fwTicked>>

\* Another publisher's command reaches the broker, which sends it on to the
\* subscribed device.
BrokerDelivers(topic, msg) ==
  /\ fwConnected
  /\ topic \in fwSubs
  /\ Len(fwRx) < MaxRx
  /\ fwRx' = Append(fwRx, [topic |-> topic, msg |-> msg])
  /\ UNCHANGED bridgeVars
  /\ UNCHANGED <<fwPc, fwRet, fwConnected, fwSubs, fwTls, ledState, ledPin, fwMillis,
                 lastPublish, fwOut, fwConn, fwIn, fwTicked>>

\* millis() advances by one publish interval, at most once in a pass of
\* loop(): a pass is shorter than an interval, but for the delay of reconnect().
FwTick ==
  /\ ~fwTicked
  /\ fwTicked' = TRUE
  /\ fwMillis' = (fwMillis + publishInterval) % MillisModulus
  /\ UNCHANGED bridgeVars
  /\ UNCHANGED <<fwPc, fwRet, fwConnected, fwSubs, fwTls, ledState, ledPin,
                 lastPublish, fwOut, fwConn, fwIn, fwRx>>

\* ---------------------------------------------------------------- Next
Lifecycle ==
  \/ \E c \in DOMAIN clients : ConnectOk(c)
  \/ \E c \in DOMAIN clients : ConnectFail(c)
  \/ \E c \in DOMAIN clients : ReconnectTimer(c)
  \/ \E c \in DOMAIN clients : Drop(c)

Telemetry ==
  \/ Tick
  \/ \E c \in DOMAIN clients, topic \in {TopicData, TopicStatus}, text \in RawMessages :
       Message(c, topic, text)

Reads ==
  \/ ExpressGet
  \/ WorkerGetData
  \/ WorkerGetStatus

Posts ==
  \/ \E body \in LedBodies : ExpressPostLed(body)
  \/ \E body \in RawBodies : ExpressPostCommand(body)
  \/ \E body \in LedBodies : WorkerPostLed(body)
  \/ \E body \in RawBodies : WorkerPostCommand(body)

Acks ==
  \/ \E p \in DOMAIN pubs : PubAck(p)
  \/ \E p \in DOMAIN pubs : PubError(p)

\* The State Cache under the session's lifecycle: telemetry and reads.
NextCache == Lifecycle \/ Telemetry \/ Reads

SpecCache == Init /\ [][NextCache]_vars

\* The Command Dispatcher under the session's lifecycle and the shutdown.
NextCmd == Lifecycle \/ Posts \/ Acks \/ Shutdown

SpecCmd == Init /\ [][NextCmd]_vars

\* sendBoolCommand alone, on both bridges, under the session's lifecycle.
LedPosts ==
  \/ \E body \in LedBodies : ExpressPostLed(body)
  \/ \E body \in LedBodies : WorkerPostLed(body)

NextLed == Lifecycle \/ LedPosts \/ Acks

SpecLed == Init /\ [][NextLed]_vars

\* The device firmware.
NextDevice ==
  \/ FwSetup
  \/ FwReconnectTest
  \/ FwConnectOk
  \/ FwConnectFail
  \/ FwDelay
  \/ FwSubscribe
  \/ FwStatusConnected
  \/ FwStatusOnline
  \/ FwLoop
  \/ FwPollIdle
  \/ FwPollMessage
  \/ FwTimer
  \/ FwDrop
  \/ FwTick
  \/ \E msg \in DeviceCommands : BrokerDelivers(TopicCommand, msg)

SpecDevice == Init /\ [][NextDevice]_vars

\* The sketch's own steps: setup(), reconnect() and loop() run on, one
\* statement after the other, for as long as the device is powered.
FwProgram ==
  \/ FwSetup
  \/ FwReconnectTest
  \/ FwConnectOk
  \/ FwConnectFail
  \/ FwDelay
  \/ FwSubscribe
  \/ FwStatusConnected
  \/ FwStatusOnline
  \/ FwLoop
  \/ FwPollIdle
  \/ FwPollMessage
  \/ FwTimer

\* The firmware on a processor that keeps running and a clock that keeps
\* counting.
SpecDeviceFair ==
  /\ Init
  /\ [][NextDevice]_vars
  /\ WF_vars(FwProgram)
  /\ WF_vars(FwTick)

\* ------------------------------------------- the bridge and the device
\* The broker hands the telemetry that is on its way to a subscribed client.
DeliverTelemetry(c) ==
  /\ brRx # ""
  /\ Message(c, TopicData, brRx)

\* The Express bridge and the device on one broker: sendBoolCommand is the
\* only source of commands, the device the only source of telemetry.
InitE2E == Init /\ variant = "express"

BridgeE2E ==
  \/ \E c \in DOMAIN clients : ConnectOk(c)
  \/ \E c \in DOMAIN clients : Drop(c)
  \/ \E c \in DOMAIN clients : ReconnectTimer(c)
  \/ \E b \in BOOLEAN : ExpressPostLed(Body("bool", b, <<>>))
  \/ \E p \in DOMAIN pubs : PubAck(p)

Delivery == \E c \in DOMAIN clients : DeliverTelemetry(c)

\* The sketch with a broker that accepts every connect attempt, within one
\* publish interval of the clock: the reports are those of callback().
FwProgramE2E ==
  \/ FwSetup
  \/ FwReconnectTest
  \/ FwConnectOk
  \/ FwSubscribe
  \/ FwStatusConnected
  \/ FwStatusOnline
  \/ FwLoop
  \/ FwPollIdle
  \/ FwPollMessage
  \/ FwTimer

NextE2E == BridgeE2E \/ Delivery \/ FwProgramE2E \/ FwDrop

\* Fairness: the sketch keeps running, and the broker hands on what it holds
\* for a subscribed client.
SpecE2E ==
  /\ InitE2E
  /\ [][NextE2E]_vars
  /\ WF_vars(FwProgramE2E)
  /\ WF_vars(Delivery)

\* The whole bridge, every handler, with at most MaxReqsAll command requests.
Next ==
  \/ Lifecycle
  \/ Shutdown
  \/ Telemetry
  \/ Reads
  \/ Len(reqs) < MaxReqsAll /\ Posts
  \/ Acks

Spec == Init /\ [][Next]_vars


\* ================================================================ claims
\* Requests, by what the claims say about them.
ValidLed(r) == r.op = "led" /\ r.body.t = "bool"

InvalidInput(r) ==
  \/ r.op = "led" /\ r.body.t # "bool"
  \/ r.op = "raw" /\ (r.body.t # "str" \/ \A i \in DOMAIN r.body.s : r.body.s[i] = " ")

\* C1: a read after the Nth successfully parsed telemetry message returns
\* exactly that message's fields plus the timestamp assigned when it was
\* handled, nothing of an earlier snapshot; before the first one it returns
\* the startup placeholder with ledState=false; a message that fails to parse
\* changes nothing.
C1_ReadIsLastParsedPayload ==
  IF hist.n = 0
    THEN /\ latestData = Placeholder(0)
         /\ latestData["ledState"] = JBool(FALSE)
    ELSE /\ DOMAIN latestData = DOMAIN JSONParse(hist.text).props \cup {"timestamp"}
         /\ \A k \in DOMAIN latestData \ {"timestamp"} :
              latestData[k] = JSONParse(hist.text).props[k]
         /\ latestData["timestamp"] = toISOString(hist.at)

\* A second parsed message with fewer fields than a telemetry message has
\* replaced the snapshot, after the clock advanced.
C1_Witness ==
  /\ hist.n = 2
  /\ hist.text = "{\"ledState\":false}"
  /\ hist.at = 1
  /\ DOMAIN latestData = {"ledState", "timestamp"}

\* C2: a payload that is valid JSON but not an object carrying a boolean
\* ledState is rejected, so every snapshot read has a boolean ledState.
C2_SnapshotHasBooleanLedState ==
  /\ "ledState" \in DOMAIN latestData
  /\ latestData["ledState"].t = "bool"

\* C3: a command is answered with success only after the broker acknowledged
\* its publish.
C3_SuccessOnlyAfterAck ==
  \A i \in DOMAIN reqs :
    reqs[i].resp = "ok" => reqs[i].pub # 0 /\ pubs[reqs[i].pub].st = "acked"

\* C4: a sendBoolCommand issued while the session is not connected is never
\* answered with success.
C4_NoSuccessWhileDisconnected ==
  \A i \in DOMAIN reqs :
    ValidLed(reqs[i]) /\ ~reqs[i].conn => reqs[i].resp # "ok"

\* C5: a command with invalid input is answered invalid-input, publishes
\* nothing and starts no broker connection attempt.
C5_ValidationBeforeNetwork ==
  \A i \in DOMAIN reqs :
    InvalidInput(reqs[i]) =>
      /\ reqs[i].resp = "invalid"
      /\ reqs[i].pub = 0
      /\ ~reqs[i].started

\* C6: at most one broker client object with live handlers exists.
C6_OneClient == Len(clients) <= 1

\* C7: no connect attempt, of the bridge or of the device, starts after a
\* failed attempt without a reconnect delay step in between.
C7_DelayBetweenAttempts == ~conn.backToBack /\ ~fwConn.backToBack

\* C8: a bridge client whose session is Connected, its connect handling done,
\* has had both the telemetry and the status subscription issued for that
\* connection; the device, connected and past the subscribe call of
\* reconnect(), has had the command subscription issued.
C8_SubscribedWhenConnected ==
  /\ \A c \in DOMAIN clients :
       clients[c].st = "connected" => {TopicData, TopicStatus} \subseteq clients[c].subs
  /\ fwConnected /\ fwPc # "subscribe" => TopicCommand \in fwSubs

\* C9: the timestamp of the snapshot is the bridge clock value at the time
\* the snapshot was stored (startup, or the handling of the last parsed
\* message), also when the payload carries a timestamp of its own.
C9_TimestampIsReceiptTime ==
  /\ "timestamp" \in DOMAIN latestData
  /\ latestData["timestamp"] = toISOString(hist.at)

\* The last parsed payload carried a device timestamp, and was handled after
\* the clock advanced.
C9_Witness ==
  /\ hist.text = "{\"ledState\":true,\"timestamp\":\"1970-01-01T00:00:09.000Z\"}"
  /\ hist.at = 1
  /\ latestData["ledState"] = JBool(TRUE)

\* A step that handles a telemetry-topic message that parses.
ParsedTelemetryStep ==
  \E c \in DOMAIN clients, text \in RawMessages :
    JSONParse(text).ok /\ Message(c, TopicData, text)

\* C10: the snapshot changes only in a step that handles a successfully
\* parsed message on the telemetry topic.
C10_SnapshotFrame == [][latestData' # latestData => ParsedTelemetryStep]_vars

\* A command was published and acknowledged, in a state whose snapshot is a
\* parsed telemetry message.
C10_Witness ==
  /\ hist.n > 0
  /\ latestData # Placeholder(0)
  /\ \E i \in DOMAIN reqs : reqs[i].pub # 0 /\ pubs[reqs[i].pub].st = "acked"


\* C11: every valid sendBoolCommand call makes its own publish attempt on the
\* command topic at QoS 1, carrying LED_ON for true and LED_OFF for false;
\* the attempts are as many as the calls and in the order of the calls.
C11_OnePublishPerCall ==
  /\ \A i \in DOMAIN reqs :
       ValidLed(reqs[i]) =>
         /\ reqs[i].pub \in DOMAIN pubs
         /\ pubs[reqs[i].pub].req = i
         /\ pubs[reqs[i].pub].topic = TopicCommand
         /\ pubs[reqs[i].pub].qos = 1
         /\ pubs[reqs[i].pub].payload = IF reqs[i].body.b THEN LedOn ELSE LedOff
  /\ \A p \in DOMAIN pubs : pubs[p].req \in DOMAIN reqs /\ reqs[pubs[p].req].pub = p
  /\ \A p, q \in DOMAIN pubs : p < q => pubs[p].req < pubs[q].req

\* sendBoolCommand(true) immediately followed by sendBoolCommand(false): two
\* publish attempts.
C11_Witness ==
  /\ Len(reqs) = 2
  /\ ValidLed(reqs[1]) /\ reqs[1].body.b
  /\ ValidLed(reqs[2]) /\ ~reqs[2].body.b
  /\ Len(pubs) = 2


\* The step in which client.loop() runs callback() on an LED command.
LedCommandStep == fwPc = "poll" /\ fwPc' = "timer" /\ fwIn' \in {LedOn, LedOff}

\* C12: the callback that handles LED_ON or LED_OFF sets the actuator state to
\* the commanded value and, in the same step, before the timer test and before
\* any later command, publishes a telemetry message carrying the new ledState;
\* the periodic timer is neither consulted nor touched.
C12_PublishOnChange ==
  [][LedCommandStep =>
       /\ ledState' = (fwIn' = LedOn)
       /\ fwOut'.topic = TopicData
       /\ fwOut'.led = ledState'
       /\ fwOut.n < MaxOut => fwOut'.n = fwOut.n + 1
       /\ lastPublish' = lastPublish]_vars

\* LED_ON has just been handled at a moment when the periodic publish is not
\* due, and the telemetry with ledState true is already out.
C12_Witness ==
  /\ fwPc = "timer"
  /\ fwIn = LedOn
  /\ ~timerDue(fwMillis, lastPublish)
  /\ fwOut.topic = TopicData /\ fwOut.led /\ ledState


\* C13: when the process has exited on SIGINT, the broker session has ended
\* by a disconnect that completed (the client reached "ended") before the exit.
C13_DisconnectCompletesBeforeExit ==
  proc = "exited" => \A c \in DOMAIN clients : clients[c].st = "ended"


\* C14: at every connect attempt of the device the TLS client validates the
\* broker's certificate against the pinned root certificate; verification is
\* never off.
C14_VerifiesBrokerCertificate == fwPc = "connect" => fwTls = "anchored"

\* C19: from the end of setup() on, ledState is true exactly when the
\* active-low LED pin is driven LOW.
C19_LedStateIsPinLow == fwPc # "setup" => (ledState <=> ledPin = "LOW")

\* LED_ON has been handled: the pin is LOW and ledState is true.
C19_Witness == fwIn = LedOn /\ ledState /\ ledPin = "LOW"


\* The step in which callback() runs on a command-topic message that is
\* neither LED_ON nor LED_OFF.
UnknownCommandStep ==
  fwPc = "poll" /\ fwPc' = "timer" /\ fwIn' \notin {<<>>, LedOn, LedOff}

\* C20: a command-topic message that is not exactly LED_ON or LED_OFF, and any
\* message on another topic, leaves the actuator state and the pin as they
\* were and publishes no telemetry.
C20_UnknownCommandFrame ==
  [][/\ UnknownCommandStep =>
          ledState' = ledState /\ ledPin' = ledPin /\ fwOut' = fwOut
     /\ \A topic \in {TopicData, TopicStatus}, msg \in DeviceCommands :
          /\ callbackLed(topic, msg, ledState) = ledState
          /\ callbackPin(topic, msg, ledPin) = ledPin
          /\ ~callbackPublishes(topic, msg)]_vars

\* An unknown command has just been handled while the LED was on: it still is.
C20_Witness ==
  /\ fwPc = "timer"
  /\ fwIn \notin {<<>>, LedOn, LedOff}
  /\ ledState /\ ledPin = "LOW"


\* The timer test of loop(), and the publish it makes.
TimerStep == fwPc = "timer" /\ fwPc' = "loop"

Elapsed == (fwMillis - lastPublish) % MillisModulus

PeriodicPublish ==
  /\ TimerStep
  /\ lastPublish' = fwMillis
  /\ fwOut'.topic = TopicData
  /\ fwOut'.led = ledState
  /\ fwOut.n < MaxOut => fwOut'.n = fwOut.n + 1

\* C15: while the device stays connected, loop() publishes telemetry again and
\* again, at the timer test of the first pass in which more than a publish
\* interval has elapsed since lastPublish and not before, whether or not the
\* state changed or callback() has published in that pass; callback() leaves
\* lastPublish alone.
C15_PeriodicTelemetry ==
  /\ [][/\ TimerStep /\ fwConnected /\ Elapsed > publishInterval => PeriodicPublish
        /\ TimerStep /\ Elapsed <= publishInterval =>
             lastPublish' = lastPublish /\ fwOut' = fwOut
        /\ LedCommandStep => lastPublish' = lastPublish]_vars
  /\ <>[]fwConnected => []<><<PeriodicPublish>>_vars

\* The periodic publish has just been made in a pass whose callback() had
\* published on an LED command.
C15_Witness ==
  /\ fwPc = "loop"
  /\ fwIn = LedOff
  /\ lastPublish = fwMillis /\ lastPublish # 0
  /\ fwOut.topic = TopicData /\ fwOut.n = MaxOut


\* C16: every GET request is answered at once with a JSON body, in any
\* session state, and the connectivity flag of the answer is the connected
\* flag the session had at the moment of the call.
C16_ReadsAnswerWithSessionFlag ==
  lastRead.route # "none" => lastRead.code = 200 /\ lastRead.mqtt = lastRead.was

\* GET /api/status of the worker answered before any client exists.
C16_Witness ==
  /\ variant = "worker"
  /\ cur = 0
  /\ lastRead.route = "status" /\ lastRead.code = 200 /\ ~lastRead.mqtt


\* C17: every command request the Express bridge accepted has its response:
\* none is left without one when the process exits on shutdown.
C17_AnsweredBeforeExit ==
  variant = "express" /\ proc = "exited" =>
    \A i \in DOMAIN reqs : reqs[i].resp # "none"


\* The bridge's session and the device's are up, each with its subscription.
Linked ==
  /\ fwConnected /\ TopicCommand \in fwSubs
  /\ connected(clients, cur) /\ TopicData \in clients[cur].subs

\* A read returns ledState = v.
ReadsLed(v) == "ledState" \in DOMAIN latestData /\ latestData["ledState"] = JBool(v)

\* The n-th command is the last one sent, it carries v, the broker has
\* acknowledged it and sent it on to the subscribed device.
LastCommandAcked(n, v) ==
  /\ Len(pubs) = n
  /\ pubs[n].st = "acked"
  /\ pubs[n].payload = IF v THEN LedOn ELSE LedOff
  /\ fwRx # <<>> /\ fwRx[Len(fwRx)].msg = pubs[n].payload
  /\ Linked

====
